---- MODULE Spec2Model ----
(***************************************************************************)
(* Model of packages/gatsby-script/src/gatsby-script.tsx: the Script       *)
(* component, its mount effect and cleanup, injectScript, the module-wide  *)
(* scriptCache, resolveInlineScript and resolveAttributes.                 *)
(***************************************************************************)
EXTENDS Integers, Sequences, FiniteSets, TLC

(* ------------------------------ bounds -------------------------------- *)

\* Number of component instances the host framework creates in one run.
NumMounts == 2

\* Number of re-renders (calls of Script after the first) in one run.
MaxRenders == 1

Mounts == 1..NumMounts

(* ------------------------- JavaScript values --------------------------- *)

\* The value of a property that was not supplied.
Undefined == "<undefined>"

\* JavaScript truthiness of a string-or-undefined value.
Truthy(v) == v # Undefined /\ v # ""

\* a || b
Or(a, b) == IF Truthy(a) THEN a ELSE b

\* props.k, undefined when the key was not supplied.
Get(p, k) == IF k \in DOMAIN p THEN p[k] ELSE Undefined

\* { ...base, ...over }: later keys win.
Spread(base, over) ==
    [k \in (DOMAIN base) \cup (DOMAIN over) |->
        IF k \in DOMAIN over THEN over[k] ELSE base[k]]

EmptyObject == [k \in {} |-> ""]

(* --------------------------- ScriptStrategy ---------------------------- *)

preHydrate == "pre-hydrate"
postHydrate == "post-hydrate"
idle == "idle"
experimentalPartytown == "experimental-partytown"

ScriptStrategy == {preHydrate, postHydrate, idle, experimentalPartytown}

handledProps ==
    {"src", "strategy", "dangerouslySetInnerHTML", "children", "onLoad", "onError"}

\* const { strategy = ScriptStrategy.postHydrate } = props
StrategyOf(p) ==
    IF Get(p, "strategy") = Undefined THEN postHydrate ELSE p["strategy"]

(* ------------------------------ props ---------------------------------- *)

\* The descriptors the lifecycle specification mounts: every strategy, keys given
\* by id, by src, by both and by neither, inline bodies, listeners and extra attributes.
Descriptors ==
    { [src |-> "a.js"],
      [src |-> "a.js", strategy |-> idle, onLoad |-> "onLoadA", onError |-> "onErrorA"],
      [id |-> "x", src |-> "a.js", strategy |-> postHydrate, onLoad |-> "onLoadB",
       type |-> "module"],
      [children |-> "c1", strategy |-> idle, onError |-> "onErrorA"],
      [dangerouslySetInnerHTML |-> [__html |-> "h1"], children |-> "c2"],
      [src |-> "a.js", children |-> "c1", strategy |-> preHydrate],
      [id |-> "x", strategy |-> preHydrate, children |-> "c1", onLoad |-> "onLoadA"],
      [src |-> "b.js", strategy |-> experimentalPartytown, type |-> "module"],
      [src |-> "a.js", children |-> "c1", strategy |-> experimentalPartytown],
      [id |-> "", src |-> "b.js", strategy |-> idle] @@ ("data-strategy" :> "custom") }

\* Marks a key that is left out of a props object.
Absent == "<absent>"

\* The props objects of the resolver specification: every combination of these
\* values for the keys the component reads, plus three passthrough keys.
PropChoices ==
    [id : {Absent, "", "x"},
     src : {Absent, "", "a.js"},
     strategy : {Absent} \cup ScriptStrategy,
     html : {Absent, Undefined, "", "h1"},
     children : {Absent, "", "c1"},
     onLoad : {Absent, "onLoadA"},
     onError : {Absent, "onErrorA"},
     type : {Absent, "module"},
     dataStrategy : {Absent, "custom"}]

PropsOf(c) ==
    LET key(k) == IF k = "html" THEN "dangerouslySetInnerHTML"
                  ELSE IF k = "dataStrategy" THEN "data-strategy" ELSE k
        given == {k \in DOMAIN c : c[k] # Absent}
    IN  [n \in {key(k) : k \in given} |->
            IF n = "dangerouslySetInnerHTML" THEN [__html |-> c["html"]]
            ELSE IF n = "data-strategy" THEN c["dataStrategy"] ELSE c[n]]

AllProps == {PropsOf(c) : c \in PropChoices}

(* ------------------------- Descriptor Resolver ------------------------- *)

\* Mutant of resolveInlineScript: children || dangerousHTML.
resolveInlineScriptChildrenFirst(p) ==
    LET children == IF "children" \in DOMAIN p /\ p["children"] # Undefined
                    THEN p["children"] ELSE ""
        inner == IF "dangerouslySetInnerHTML" \in DOMAIN p
                 THEN p["dangerouslySetInnerHTML"]["__html"] ELSE Undefined
        dangerousHTML == IF inner = Undefined THEN "" ELSE inner
    IN  IF Truthy(children) THEN children ELSE dangerousHTML

\* function resolveInlineScript(props)
resolveInlineScript(p) ==
    LET children == IF "children" \in DOMAIN p /\ p["children"] # Undefined
                    THEN p["children"] ELSE ""
        inner == IF "dangerouslySetInnerHTML" \in DOMAIN p
                 THEN p["dangerouslySetInnerHTML"]["__html"] ELSE Undefined
        dangerousHTML == IF inner = Undefined THEN "" ELSE inner
    IN  IF Truthy(dangerousHTML) THEN dangerousHTML ELSE children

\* function resolveAttributes(props)
resolveAttributes(p) ==
    [k \in (DOMAIN p) \ handledProps |-> p[k]]

\* Mutant of IdentityKey: src || id.
IdentityKeySrcFirst(p) == Or(Get(p, "src"), Get(p, "id"))

\* scriptCache.has(id || src) and scriptCache.add(id || src) use this key.
IdentityKey(p) == Or(Get(p, "id"), Get(p, "src"))

(* ----------------------------- render output --------------------------- *)

Fragment == [tag |-> "fragment", attrs |-> EmptyObject, children |-> ""]
NoOutput == [tag |-> "none", attrs |-> EmptyObject, children |-> ""]

\* attributes.type = `text/partytown` for experimental-partytown
RenderAttributes(p) ==
    IF StrategyOf(p) = experimentalPartytown
    THEN Spread(resolveAttributes(p), "type" :> "text/partytown")
    ELSE resolveAttributes(p)

\* <script async data-strategy={strategy} {...attributes}>{inline}</script>
InlineElement(p) ==
    [tag |-> "script",
     attrs |-> Spread(("async" :> "true") @@ ("data-strategy" :> StrategyOf(p)),
                      RenderAttributes(p)),
     children |-> resolveInlineScript(p)]

\* <script async src={src} data-strategy={strategy} {...attributes} />
SrcElement(p) ==
    [tag |-> "script",
     attrs |-> Spread(
         Spread("async" :> "true",
                IF Get(p, "src") = Undefined THEN EmptyObject ELSE "src" :> p["src"]),
         Spread("data-strategy" :> StrategyOf(p), RenderAttributes(p))),
     children |-> ""]

\* The value returned by Script(props).
RenderOutput(p) ==
    IF StrategyOf(p) \in {preHydrate, experimentalPartytown}
    THEN IF Truthy(resolveInlineScript(p)) THEN InlineElement(p) ELSE SrcElement(p)
    ELSE Fragment

(* ------------------------- the inserted element ------------------------ *)

\* Mutant of Listeners: each callback is attached to the other event.
ListenersSwapped(p) ==
    (IF Truthy(Get(p, "onLoad")) THEN {<<"error", p["onLoad"]>>} ELSE {})
    \cup (IF Truthy(Get(p, "onError")) THEN {<<"load", p["onError"]>>} ELSE {})

\* script.addEventListener(`load`, onLoad) / (`error`, onError)
Listeners(p) ==
    (IF Truthy(Get(p, "onLoad")) THEN {<<"load", p["onLoad"]>>} ELSE {})
    \cup (IF Truthy(Get(p, "onError")) THEN {<<"error", p["onError"]>>} ELSE {})

\* Mutant of NewElement: dataset.strategy is assigned after the attribute loop.
NewElementTagLast(p) ==
    LET a1 == IF Truthy(Get(p, "id")) THEN "id" :> p["id"] ELSE EmptyObject
        a2 == Spread(a1, resolveAttributes(p))
        a3 == Spread(a2, "data-strategy" :> StrategyOf(p))
        a4 == IF Truthy(Get(p, "src")) THEN Spread(a3, "src" :> p["src"]) ELSE a3
        inlineScript == resolveInlineScript(p)
    IN  [attrs |-> a4,
         textContent |-> IF Truthy(inlineScript) THEN inlineScript ELSE "",
         listeners |-> Listeners(p)]

\* The element injectScript builds between createElement and appendChild.
NewElement(p) ==
    LET a1 == IF Truthy(Get(p, "id")) THEN "id" :> p["id"] ELSE EmptyObject
        a2 == Spread(a1, "data-strategy" :> StrategyOf(p))
        a3 == Spread(a2, resolveAttributes(p))
        a4 == IF Truthy(Get(p, "src")) THEN Spread(a3, "src" :> p["src"]) ELSE a3
        inlineScript == resolveInlineScript(p)
    IN  [attrs |-> a4,
         textContent |-> IF Truthy(inlineScript) THEN inlineScript ELSE "",
         listeners |-> Listeners(p)]

(* ------------------------------- state --------------------------------- *)

VARIABLES
    phase,         \* per instance: "init", "rendered", "mounted", "unmounted"
    props,         \* per instance: the props of its first render (the effect's closure)
    out,           \* per instance: the latest value returned by Script
    script,        \* per instance: the effect's `script` variable
    idleQueue,     \* instances whose requestIdleCallback callback has not run yet
    scriptCache,   \* the module-wide Set
    elems,         \* every element created so far; an element's handle is its index
    appendLog,     \* appendLog[h]: the key under which element h was appended
    body,          \* document.body's script children, in order
    detachLog,     \* the removeEventListener calls made so far, as <<handle, kind>>
    alreadyLoaded, \* performance.getEntriesByName(location.href).length > 0
    renders,       \* number of re-renders so far
    ops,           \* ops[h]: the calls made for element h so far, in program order
    dispatched,    \* the load/error events the host has fired, as <<handle, kind>>
    called         \* the callbacks invoked so far, as <<handle, kind, callback>>

vars == <<phase, props, out, script, idleQueue, scriptCache, elems, appendLog,
          body, detachLog, alreadyLoaded, renders, ops, dispatched, called>>

\* `let script` before any assignment, and the null injectScript returns.
Unassigned == -1
Null == 0

Init ==
    /\ phase = [m \in Mounts |-> "init"]
    /\ props = [m \in Mounts |-> EmptyObject]
    /\ out = [m \in Mounts |-> NoOutput]
    /\ script = [m \in Mounts |-> Unassigned]
    /\ idleQueue = {}
    /\ scriptCache = {}
    /\ elems = <<>>
    /\ appendLog = <<>>
    /\ body = <<>>
    /\ detachLog = {}
    /\ alreadyLoaded \in BOOLEAN
    /\ renders = 0
    /\ ops = <<>>
    /\ dispatched = {}
    /\ called = {}

(* ------------------------------ injectScript --------------------------- *)

\* The calls injectScript makes when the key is not cached, in program order.
InjectOps(p) ==
    <<"scriptCache.has", "createElement">>
    \o (IF Truthy(Get(p, "onLoad")) THEN <<"addEventListener:load">> ELSE <<>>)
    \o (IF Truthy(Get(p, "onError")) THEN <<"addEventListener:error">> ELSE <<>>)
    \o <<"appendChild", "scriptCache.add">>

\* Mutant of CleanupOps: the element is removed before its listeners are detached.
CleanupOpsRemoveFirst(p) ==
    <<"remove">>
    \o (IF Truthy(Get(p, "onLoad")) THEN <<"removeEventListener:load">> ELSE <<>>)
    \o (IF Truthy(Get(p, "onError")) THEN <<"removeEventListener:error">> ELSE <<>>)

\* The calls the cleanup makes on the element it owns, in program order.
CleanupOps(p) ==
    (IF Truthy(Get(p, "onLoad")) THEN <<"removeEventListener:load">> ELSE <<>>)
    \o (IF Truthy(Get(p, "onError")) THEN <<"removeEventListener:error">> ELSE <<>>)
    \o <<"remove">>

\* Mutant of CacheHas: the lookup never finds the key.
CacheHasNever(k) == k \in scriptCache /\ FALSE

CacheHas(k) == k \in scriptCache

\* Mutant of injectScript: on a cache hit the element already inserted under the
\* key is returned instead of null.
injectScriptShares(m, p) ==
    IF CacheHas(IdentityKey(p))
    THEN /\ script' = [script EXCEPT ![m] =
                          CHOOSE h \in 1..Len(appendLog) : appendLog[h] = IdentityKey(p)]
         /\ UNCHANGED <<elems, appendLog, ops, body, scriptCache>>
    ELSE /\ elems' = Append(elems, NewElement(p))
         /\ appendLog' = Append(appendLog, IdentityKey(p))
         /\ ops' = Append(ops, InjectOps(p))
         /\ body' = Append(body, Len(elems) + 1)
         /\ scriptCache' = scriptCache \cup {IdentityKey(p)}
         /\ script' = [script EXCEPT ![m] = Len(elems) + 1]

\* function injectScript(props), called with the result assigned to instance m's
\* `script` variable.
injectScript(m, p) ==
    IF CacheHas(IdentityKey(p))
    THEN /\ script' = [script EXCEPT ![m] = Null]
         /\ UNCHANGED <<elems, appendLog, ops, body, scriptCache>>
    ELSE /\ elems' = Append(elems, NewElement(p))
         /\ appendLog' = Append(appendLog, IdentityKey(p))
         /\ ops' = Append(ops, InjectOps(p))
         /\ body' = Append(body, Len(elems) + 1)
         /\ scriptCache' = scriptCache \cup {IdentityKey(p)}
         /\ script' = [script EXCEPT ![m] = Len(elems) + 1]

(* ------------------------------- actions ------------------------------- *)

\* First call of Script(props) for instance m. Instances are created in index order.
Script(m, p) ==
    /\ phase[m] = "init"
    /\ \A k \in 1..(m - 1) : phase[k] # "init"
    /\ phase' = [phase EXCEPT ![m] = "rendered"]
    /\ props' = [props EXCEPT ![m] = p]
    /\ out' = [out EXCEPT ![m] = RenderOutput(p)]
    /\ UNCHANGED <<script, idleQueue, scriptCache, elems,
                   appendLog, ops, body, detachLog,
                   alreadyLoaded, renders, dispatched,
                   called>>

\* Mutant of Rerender: the effect has no dependency list and runs again on re-render.
RerenderRunsEffect(m) ==
    /\ phase[m] \in {"rendered", "mounted"}
    /\ renders < MaxRenders
    /\ renders' = renders + 1
    /\ out' = [out EXCEPT ![m] = RenderOutput(props[m])]
    /\ IF /\ phase[m] = "mounted"
          /\ \/ StrategyOf(props[m]) = postHydrate
             \/ StrategyOf(props[m]) = preHydrate /\ ~alreadyLoaded
       THEN injectScript(m, props[m])
       ELSE UNCHANGED <<script, scriptCache, elems, appendLog, ops, body>>
    /\ UNCHANGED <<phase, props, idleQueue, detachLog, alreadyLoaded, dispatched, called>>

\* A later call of Script for the same instance: useEffect(..., []) does not run again.
Rerender(m) ==
    /\ phase[m] \in {"rendered", "mounted"}
    /\ renders < MaxRenders
    /\ renders' = renders + 1
    /\ out' = [out EXCEPT ![m] = RenderOutput(props[m])]
    /\ UNCHANGED <<phase, props, script, idleQueue, scriptCache,
                   elems, appendLog, ops, body, detachLog,
                   alreadyLoaded, dispatched, called>>

\* Mutant of Mounted: the already-loaded check gates post-hydrate as well.
MountedGateAll(m) ==
    /\ phase[m] = "rendered"
    /\ phase' = [phase EXCEPT ![m] = "mounted"]
    /\ CASE StrategyOf(props[m]) \in {preHydrate, postHydrate} ->
                IF ~alreadyLoaded
                THEN injectScript(m, props[m]) /\ UNCHANGED idleQueue
                ELSE UNCHANGED <<script, idleQueue, scriptCache, elems,
                                 appendLog, ops, body>>
         [] StrategyOf(props[m]) = idle ->
                /\ idleQueue' = idleQueue \cup {m}
                /\ UNCHANGED <<script, scriptCache, elems, appendLog, ops, body>>
         [] OTHER ->
                UNCHANGED <<script, idleQueue, scriptCache, elems, appendLog, ops, body>>
    /\ UNCHANGED <<props, out, detachLog, alreadyLoaded, renders, dispatched, called>>

\* Mutant of Mounted: the idle case records the key in the cache when it schedules.
MountedIdleReserves(m) ==
    /\ phase[m] = "rendered"
    /\ phase' = [phase EXCEPT ![m] = "mounted"]
    /\ CASE StrategyOf(props[m]) = preHydrate ->
                IF ~alreadyLoaded
                THEN injectScript(m, props[m]) /\ UNCHANGED idleQueue
                ELSE UNCHANGED <<script, idleQueue, scriptCache, elems,
                                 appendLog, ops, body>>
         [] StrategyOf(props[m]) = postHydrate ->
                injectScript(m, props[m]) /\ UNCHANGED idleQueue
         [] StrategyOf(props[m]) = idle ->
                /\ idleQueue' = idleQueue \cup {m}
                /\ scriptCache' = scriptCache \cup {IdentityKey(props[m])}
                /\ UNCHANGED <<script, elems, appendLog, ops, body>>
         [] OTHER ->
                UNCHANGED <<script, idleQueue, scriptCache, elems, appendLog, ops, body>>
    /\ UNCHANGED <<props, out, detachLog, alreadyLoaded, renders, dispatched, called>>

\* Mutant of Mounted: the pre-hydrate case does not consult the already-loaded check.
MountedNoGate(m) ==
    /\ phase[m] = "rendered"
    /\ phase' = [phase EXCEPT ![m] = "mounted"]
    /\ CASE StrategyOf(props[m]) \in {preHydrate, postHydrate} ->
                injectScript(m, props[m]) /\ UNCHANGED idleQueue
         [] StrategyOf(props[m]) = idle ->
                /\ idleQueue' = idleQueue \cup {m}
                /\ UNCHANGED <<script, scriptCache, elems, appendLog, ops,
                   body>>
         [] OTHER ->
                UNCHANGED <<script, idleQueue, scriptCache, elems,
                   appendLog, ops, body>>
    /\ UNCHANGED <<props, out, detachLog, alreadyLoaded, renders,
                   dispatched, called>>

\* The useEffect callback: the switch on strategy.
Mounted(m) ==
    /\ phase[m] = "rendered"
    /\ phase' = [phase EXCEPT ![m] = "mounted"]
    /\ CASE StrategyOf(props[m]) = preHydrate ->
                IF ~alreadyLoaded
                THEN injectScript(m, props[m]) /\ UNCHANGED idleQueue
                ELSE UNCHANGED <<script, idleQueue, scriptCache, elems,
                   appendLog, ops, body>>
         [] StrategyOf(props[m]) = postHydrate ->
                injectScript(m, props[m]) /\ UNCHANGED idleQueue
         [] StrategyOf(props[m]) = idle ->
                /\ idleQueue' = idleQueue \cup {m}
                /\ UNCHANGED <<script, scriptCache, elems, appendLog, ops,
                   body>>
         [] OTHER ->
                UNCHANGED <<script, idleQueue, scriptCache, elems,
                   appendLog, ops, body>>
    /\ UNCHANGED <<props, out, detachLog, alreadyLoaded, renders,
                   dispatched, called>>

\* Mutant of IdleCallback: the callback does nothing once its instance has unmounted.
IdleCallbackIfMounted(m) ==
    /\ m \in idleQueue
    /\ idleQueue' = idleQueue \ {m}
    /\ IF phase[m] = "unmounted"
       THEN /\ script' = [script EXCEPT ![m] = Null]
            /\ UNCHANGED <<elems, appendLog, ops, body, scriptCache>>
       ELSE injectScript(m, props[m])
    /\ UNCHANGED <<phase, props, out, detachLog, alreadyLoaded,
                   renders, dispatched, called>>

\* Mutant of IdleCallback: the callback inserts without looking at the cache.
IdleCallbackNoCheck(m) ==
    /\ m \in idleQueue
    /\ idleQueue' = idleQueue \ {m}
    /\ elems' = Append(elems, NewElement(props[m]))
    /\ appendLog' = Append(appendLog, IdentityKey(props[m]))
    /\ ops' = Append(ops, InjectOps(props[m]))
    /\ body' = Append(body, Len(elems) + 1)
    /\ scriptCache' = scriptCache \cup {IdentityKey(props[m])}
    /\ script' = [script EXCEPT ![m] = Len(elems) + 1]
    /\ UNCHANGED <<phase, props, out, detachLog, alreadyLoaded,
                   renders, dispatched, called>>

\* The callback passed to requestIdleCallback runs.
IdleCallback(m) ==
    /\ m \in idleQueue
    /\ idleQueue' = idleQueue \ {m}
    /\ injectScript(m, props[m])
    /\ UNCHANGED <<phase, props, out, detachLog, alreadyLoaded,
                   renders, dispatched, called>>

\* Mutant of Unmounted: the element is kept while another mounted instance has its key.
UnmountedKeepsShared(m) ==
    /\ phase[m] = "mounted"
    /\ phase' = [phase EXCEPT ![m] = "unmounted"]
    /\ out' = [out EXCEPT ![m] = NoOutput]
    /\ IF /\ script[m] > Null
          /\ ~\E m2 \in Mounts : /\ m2 # m /\ phase[m2] = "mounted"
                                 /\ IdentityKey(props[m2]) = IdentityKey(props[m])
       THEN LET h == script[m]
                gone == Listeners(props[m])
            IN  /\ elems' = [elems EXCEPT ![h].listeners = @ \ gone]
                /\ detachLog' = detachLog \cup {<<h, g[1]>> : g \in gone}
                /\ body' = SelectSeq(body, LAMBDA e : e # h)
                /\ ops' = [ops EXCEPT ![h] = @ \o CleanupOps(props[m])]
       ELSE UNCHANGED <<elems, detachLog, body, ops>>
    /\ UNCHANGED <<props, script, idleQueue, scriptCache, appendLog, alreadyLoaded,
                   renders, dispatched, called>>

\* Mutant of Unmounted: the cleanup cancels the instance's pending idle callback.
UnmountedCancels(m) ==
    /\ phase[m] = "mounted"
    /\ phase' = [phase EXCEPT ![m] = "unmounted"]
    /\ out' = [out EXCEPT ![m] = NoOutput]
    /\ idleQueue' = idleQueue \ {m}
    /\ IF script[m] > Null
       THEN LET h == script[m]
                gone == Listeners(props[m])
            IN  /\ elems' = [elems EXCEPT ![h].listeners = @ \ gone]
                /\ detachLog' = detachLog \cup {<<h, g[1]>> : g \in gone}
                /\ body' = SelectSeq(body, LAMBDA e : e # h)
                /\ ops' = [ops EXCEPT ![h] = @ \o CleanupOps(props[m])]
       ELSE UNCHANGED <<elems, detachLog, body, ops>>
    /\ UNCHANGED <<props, script, scriptCache, appendLog, alreadyLoaded,
                   renders, dispatched, called>>

\* Mutant of Unmounted: the cleanup also takes the key out of the cache.
UnmountedEvicts(m) ==
    /\ phase[m] = "mounted"
    /\ phase' = [phase EXCEPT ![m] = "unmounted"]
    /\ out' = [out EXCEPT ![m] = NoOutput]
    /\ IF script[m] > Null
       THEN LET h == script[m]
                gone == Listeners(props[m])
            IN  /\ elems' = [elems EXCEPT ![h].listeners = @ \ gone]
                /\ detachLog' = detachLog \cup {<<h, g[1]>> : g \in gone}
                /\ body' = SelectSeq(body, LAMBDA e : e # h)
                /\ ops' = [ops EXCEPT ![h] = @ \o CleanupOps(props[m])]
                /\ scriptCache' = scriptCache \ {IdentityKey(props[m])}
       ELSE UNCHANGED <<elems, detachLog, body, scriptCache, ops>>
    /\ UNCHANGED <<props, script, idleQueue, appendLog,
                   alreadyLoaded, renders, dispatched,
                   called>>

\* Mutant of Unmounted: both listeners are detached whether or not they were supplied.
UnmountedDetachBoth(m) ==
    /\ phase[m] = "mounted"
    /\ phase' = [phase EXCEPT ![m] = "unmounted"]
    /\ out' = [out EXCEPT ![m] = NoOutput]
    /\ IF script[m] > Null
       THEN LET h == script[m]
            IN  /\ elems' = [elems EXCEPT ![h].listeners = {}]
                /\ detachLog' = detachLog \cup {<<h, "load">>, <<h, "error">>}
                /\ body' = SelectSeq(body, LAMBDA e : e # h)
                /\ ops' = [ops EXCEPT ![h] = @ \o CleanupOps(props[m])]
       ELSE UNCHANGED <<elems, detachLog, body, ops>>
    /\ UNCHANGED <<props, script, idleQueue, scriptCache,
                   appendLog, alreadyLoaded, renders,
                   dispatched, called>>

\* The cleanup function the effect returned.
Unmounted(m) ==
    /\ phase[m] = "mounted"
    /\ phase' = [phase EXCEPT ![m] = "unmounted"]
    /\ out' = [out EXCEPT ![m] = NoOutput]
    /\ IF script[m] > Null
       THEN LET h == script[m]
                gone == (IF Truthy(Get(props[m], "onLoad"))
                         THEN {<<"load", props[m]["onLoad"]>>} ELSE {})
                        \cup (IF Truthy(Get(props[m], "onError"))
                              THEN {<<"error", props[m]["onError"]>>} ELSE {})
            IN  /\ elems' = [elems EXCEPT ![h].listeners = @ \ gone]
                /\ detachLog' = detachLog \cup {<<h, g[1]>> : g \in gone}
                /\ body' = SelectSeq(body, LAMBDA e : e # h)
                /\ ops' = [ops EXCEPT ![h] = @ \o CleanupOps(props[m])]
       ELSE UNCHANGED <<elems, detachLog, body, ops>>
    /\ UNCHANGED <<props, script, idleQueue, scriptCache,
                   appendLog, alreadyLoaded, renders,
                   dispatched, called>>

\* Client-side navigation changes what performance.getEntriesByName(location.href) finds.
Navigation ==
    /\ alreadyLoaded' = ~alreadyLoaded
    /\ UNCHANGED <<phase, props, out, script, idleQueue,
                   scriptCache, elems, appendLog, ops,
                   body, detachLog, renders, dispatched,
                   called>>

Next ==
    \/ \E m \in Mounts, p \in Descriptors : Script(m, p)
    \/ \E m \in Mounts : Rerender(m)
    \/ \E m \in Mounts : Mounted(m)
    \/ \E m \in Mounts : IdleCallback(m)
    \/ \E m \in Mounts : Unmounted(m)
    \/ Navigation

Spec == Init /\ [][Next]_vars

\* The host fires the load or the error event of element h, once per element:
\* every listener attached for that kind is invoked.
Dispatch(h, kind) ==
    /\ h \in 1..Len(elems)
    /\ \A k \in {"load", "error"} : <<h, k>> \notin dispatched
    /\ dispatched' = dispatched \cup {<<h, kind>>}
    /\ called' = called \cup {<<h, kind, l[2]>> : l \in {x \in elems[h].listeners : x[1] = kind}}
    /\ UNCHANGED <<phase, props, out, script, idleQueue, scriptCache, elems,
                   appendLog, body, detachLog, alreadyLoaded, renders, ops>>

LoadEvent(h) == Dispatch(h, "load")
ErrorEvent(h) == Dispatch(h, "error")

\* The descriptors of the event specification: the insertion paths
\* with and without listeners, with shared and distinct keys.
EventDescriptors ==
    { [src |-> "a.js"],
      [src |-> "a.js", strategy |-> idle, onLoad |-> "onLoadA", onError |-> "onErrorA"],
      [id |-> "x", src |-> "a.js", strategy |-> postHydrate, onLoad |-> "onLoadB",
       type |-> "module"],
      [children |-> "c1", strategy |-> idle, onError |-> "onErrorA"],
      [id |-> "x", strategy |-> preHydrate, children |-> "c1", onLoad |-> "onLoadA"] }

NextEvents ==
    \/ \E m \in Mounts, p \in EventDescriptors : Script(m, p)
    \/ \E m \in Mounts : Rerender(m)
    \/ \E m \in Mounts : Mounted(m)
    \/ \E m \in Mounts : IdleCallback(m)
    \/ \E m \in Mounts : Unmounted(m)
    \/ Navigation
    \/ \E h \in 1..NumMounts : LoadEvent(h)
    \/ \E h \in 1..NumMounts : ErrorEvent(h)

\* The lifecycle together with the host's load and error events.
SpecEvents == Init /\ [][NextEvents]_vars

\* The descriptors of the liveness specification: one post-hydrate and two idle
\* descriptors, two of them with the same key.
IdleDescriptors ==
    { [src |-> "a.js"],
      [src |-> "a.js", strategy |-> idle, onLoad |-> "onLoadA", onError |-> "onErrorA"],
      [children |-> "c1", strategy |-> idle, onError |-> "onErrorA"] }

NextIdle ==
    \/ \E m \in Mounts, p \in IdleDescriptors : Script(m, p)
    \/ \E m \in Mounts : Rerender(m)
    \/ \E m \in Mounts : Mounted(m)
    \/ \E m \in Mounts : IdleCallback(m)
    \/ \E m \in Mounts : Unmounted(m)
    \/ Navigation

\* The lifecycle under a fair idle scheduler: a scheduled callback eventually runs.
SpecIdleFair ==
    Init /\ [][NextIdle]_vars /\ \A m \in Mounts : WF_vars(IdleCallback(m))

\* One instance, with its props drawn from AllProps: every path of the resolver,
\* the render output and the element construction.
NextResolve ==
    \/ phase[1] = "init" /\ \E p \in AllProps : Script(1, p)
    \/ Rerender(1)
    \/ Mounted(1)
    \/ IdleCallback(1)
    \/ Unmounted(1)
    \/ Navigation

SpecResolve == Init /\ [][NextResolve]_vars

(* ---------------------------- vocabulary ------------------------------ *)

\* injectScript has been called for instance m and has returned.
Ran(m) == script[m] # Unassigned

\* Instance m holds an element in its `script` variable.
Owns(m) == script[m] > Null

InBody(h) == \E i \in 1..Len(body) : body[i] = h

\* Handles of the elements appended so far under key k.
AppendedFor(k) == {h \in 1..Len(appendLog) : appendLog[h] = k}

\* This step is instance m's call of injectScript.
InjectStep(m) == script[m] = Unassigned /\ script'[m] # Unassigned

\* This step is instance m's mount effect / cleanup / idle callback.
MountStep(m) == phase[m] = "rendered" /\ phase'[m] = "mounted"
UnmountStep(m) == phase[m] = "mounted" /\ phase'[m] = "unmounted"
IdleStep(m) == m \in idleQueue /\ m \notin idleQueue'

Imperative(p) == StrategyOf(p) \in {postHydrate, idle}
Declarative(p) == StrategyOf(p) \in {preHydrate, experimentalPartytown}
Created(m) == phase[m] # "init"
Live(m) == phase[m] \in {"rendered", "mounted"}

(* ------------------------------- claims -------------------------------- *)

\* C1: over a whole run at most one element is appended per identity key; the
\* cache holds a key exactly when one element was appended under it; a call of
\* injectScript whose key is already cached appends nothing and returns null.
C1_DedupIdempotence ==
    [][ /\ \A k \in scriptCache' : Cardinality({h \in 1..Len(appendLog') :
                                               appendLog'[h] = k}) = 1
        /\ \A h \in 1..Len(appendLog') : appendLog'[h] \in scriptCache'
        /\ \A m \in Mounts :
              (InjectStep(m) /\ IdentityKey(props[m]) \in scriptCache)
                  => /\ script'[m] = Null
                     /\ UNCHANGED <<body, elems, appendLog, scriptCache>> ]_vars

\* C1 witness: two post-hydrate/idle instances with the same key have both run the
\* insertion path; one owns the element, the other got null.
C1_Witness ==
    \E m1, m2 \in Mounts :
        /\ m1 # m2
        /\ Imperative(props[m1]) /\ Imperative(props[m2])
        /\ IdentityKey(props[m1]) = IdentityKey(props[m2])
        /\ Owns(m1) /\ script[m2] = Null
        /\ Len(elems) = 1 /\ scriptCache = {IdentityKey(props[m1])}

\* C2: once a key has been inserted it stays in the cache and no later step
\* appends another element under it, also after the owning instance's cleanup
\* removed the element.
C2_InsertOncePerPage ==
    [][ \A k \in scriptCache :
            /\ k \in scriptCache'
            /\ {h \in 1..Len(appendLog') : appendLog'[h] = k} = AppendedFor(k)
            /\ \A m \in Mounts :
                  (InjectStep(m) /\ IdentityKey(props[m]) = k)
                      => body' = body /\ ~(script'[m] > Null) ]_vars

\* C2 witness: the owner of K's element has unmounted, a later post-hydrate/idle
\* instance with K has run the insertion path, K is cached and the document holds
\* no element for K.
C2_Witness ==
    \E m1, m2 \in Mounts :
        /\ m1 # m2
        /\ phase[m1] = "unmounted" /\ Owns(m1) /\ ~InBody(script[m1])
        /\ phase[m2] = "mounted" /\ Imperative(props[m2]) /\ script[m2] = Null
        /\ IdentityKey(props[m2]) = IdentityKey(props[m1])
        /\ IdentityKey(props[m2]) \in scriptCache
        /\ \A i \in 1..Len(body) : appendLog[body[i]] # IdentityKey(props[m2])

\* C3 as stated: a pre-hydrate or experimental-partytown instance never appends an
\* element or writes the cache, and a post-hydrate or idle instance renders nothing.
C3_Original ==
    \A m \in Mounts :
        Created(m) =>
            /\ Declarative(props[m]) => ~Owns(m)
            /\ (Imperative(props[m]) /\ Live(m)) => out[m] = Fragment

\* C3 as amended: the mount effect of an experimental-partytown instance changes
\* neither document nor cache; that of a pre-hydrate instance changes nothing when
\* the already-loaded predicate is true and otherwise runs injectScript (appending
\* unless the key is cached); post-hydrate runs injectScript, idle only schedules;
\* render output is empty exactly for post-hydrate and idle.
C3_StrategyPartition ==
    [][ \A m \in Mounts :
          /\ (MountStep(m) /\ StrategyOf(props[m]) = experimentalPartytown)
                => UNCHANGED <<body, elems, appendLog, scriptCache, script, idleQueue>>
          /\ (MountStep(m) /\ StrategyOf(props[m]) = preHydrate /\ alreadyLoaded)
                => UNCHANGED <<body, elems, appendLog, scriptCache, script, idleQueue>>
          /\ (MountStep(m) /\ StrategyOf(props[m]) = preHydrate /\ ~alreadyLoaded)
                => /\ script'[m] # Unassigned
                   /\ idleQueue' = idleQueue
                   /\ IdentityKey(props[m]) \notin scriptCache => script'[m] > Null
          /\ (MountStep(m) /\ StrategyOf(props[m]) = postHydrate)
                => script'[m] # Unassigned /\ idleQueue' = idleQueue
          /\ (MountStep(m) /\ StrategyOf(props[m]) = idle)
                => /\ idleQueue' = idleQueue \cup {m}
                   /\ UNCHANGED <<body, elems, appendLog, scriptCache, script>>
          /\ (phase'[m] # "init" /\ StrategyOf(props'[m]) = experimentalPartytown)
                => script'[m] = Unassigned
          /\ phase'[m] \in {"rendered", "mounted"}
                => /\ out'[m] = Fragment <=> Imperative(props'[m])
                   /\ Declarative(props'[m]) => out'[m].tag = "script" ]_vars

\* C3 witness: a pre-hydrate instance has rendered a script description and its
\* mount effect has also appended an element.
C3_Witness ==
    \E m \in Mounts :
        /\ phase[m] = "mounted" /\ StrategyOf(props[m]) = preHydrate
        /\ out[m].tag = "script"
        /\ Owns(m) /\ InBody(script[m])
        /\ IdentityKey(props[m]) \in scriptCache

\* C4: the cleanup of an instance that owns an element removes that element and no
\* other, calls removeEventListener for load iff onLoad was supplied and for error
\* iff onError was supplied, only for listeners that were attached; the cleanup of
\* an instance that owns no element removes nothing and detaches nothing.
C4_TeardownSymmetry ==
    [][ \A m \in Mounts :
          UnmountStep(m) =>
            IF Owns(m)
            THEN LET h == script[m]
                     calls == detachLog' \ detachLog
                 IN  /\ InBody(h)
                     /\ body' = SelectSeq(body, LAMBDA e : e # h)
                     /\ Len(body') = Len(body) - 1
                     /\ <<h, "load">> \in calls <=> Truthy(Get(props[m], "onLoad"))
                     /\ <<h, "error">> \in calls <=> Truthy(Get(props[m], "onError"))
                     /\ \A c \in calls :
                           c[1] = h /\ \E l \in elems[h].listeners : l[1] = c[2]
                     /\ elems'[h].listeners = {}
            ELSE UNCHANGED <<body, detachLog, elems>> ]_vars

\* C4 witness: an instance that supplied onLoad but no onError has been torn down;
\* its element is gone, load was detached, error was not, and another instance's
\* element is still in the document.
C4_Witness ==
    \E m \in Mounts :
        /\ phase[m] = "unmounted" /\ Owns(m) /\ ~InBody(script[m])
        /\ <<script[m], "load">> \in detachLog
        /\ <<script[m], "error">> \notin detachLog
        /\ Len(body) = 1

\* C5: the cleanup of an idle instance whose callback is still pending removes and
\* detaches nothing and leaves the callback scheduled; when the callback of an
\* unmounted instance runs with its key not cached it appends the element with the
\* supplied listeners and caches the key; that element is never removed afterwards.
C5_IdleUnmountRace ==
    [][ \A m \in Mounts :
          StrategyOf(props[m]) = idle =>
            /\ (UnmountStep(m) /\ m \in idleQueue)
                  => m \in idleQueue' /\ UNCHANGED <<body, elems, detachLog, scriptCache>>
            /\ (IdleStep(m) /\ phase[m] = "unmounted"
                    /\ IdentityKey(props[m]) \notin scriptCache)
                  => /\ script'[m] = Len(elems) + 1
                     /\ body' = Append(body, script'[m])
                     /\ elems' = Append(elems, NewElement(props[m]))
                     /\ elems'[script'[m]].listeners = Listeners(props[m])
                     /\ scriptCache' = scriptCache \cup {IdentityKey(props[m])}
            /\ (phase[m] = "unmounted" /\ Owns(m) /\ InBody(script[m]))
                  => /\ \E i \in 1..Len(body') : body'[i] = script[m]
                     /\ elems'[script[m]] = elems[script[m]]
                     /\ IdentityKey(props[m]) \in scriptCache' ]_vars

\* C5 witness: an idle instance was unmounted before its callback ran; the callback
\* has since appended the element, which is in the document with both listeners
\* attached while its owner is gone.
C5_Witness ==
    \E m \in Mounts :
        /\ StrategyOf(props[m]) = idle /\ phase[m] = "unmounted"
        /\ Owns(m) /\ InBody(script[m])
        /\ Cardinality(elems[script[m]].listeners) = 2
        /\ IdentityKey(props[m]) \in scriptCache

\* C6: scheduling an idle insertion neither consults nor writes the cache; when an
\* idle callback runs it appends iff its key is not cached at that moment, otherwise
\* it appends nothing and its instance gets null; no two instances with the same
\* key ever both own an element.
C6_IdleDedupAtRun ==
    [][ /\ \A m \in Mounts :
              /\ (MountStep(m) /\ StrategyOf(props[m]) = idle)
                    => m \in idleQueue' /\ script'[m] = Unassigned
                       /\ scriptCache' = scriptCache
              /\ IdleStep(m) =>
                    IF IdentityKey(props[m]) \in scriptCache
                    THEN script'[m] = Null /\ UNCHANGED <<body, elems, scriptCache>>
                    ELSE /\ script'[m] = Len(elems) + 1
                         /\ body' = Append(body, script'[m])
                         /\ IdentityKey(props[m]) \in scriptCache'
        /\ \A m1, m2 \in Mounts :
              (m1 # m2 /\ phase'[m1] # "init" /\ phase'[m2] # "init"
                 /\ IdentityKey(props'[m1]) = IdentityKey(props'[m2]))
                  => ~(script'[m1] > Null /\ script'[m2] > Null) ]_vars

\* C6 witness: two idle instances with the same key were both pending; both
\* callbacks have run, the first to run owns the element and the other got null.
C6_Witness ==
    \E m1, m2 \in Mounts :
        /\ m1 # m2
        /\ StrategyOf(props[m1]) = idle /\ StrategyOf(props[m2]) = idle
        /\ IdentityKey(props[m1]) = IdentityKey(props[m2])
        /\ phase[m1] = "mounted" /\ phase[m2] = "mounted"
        /\ script[m1] = Null /\ Owns(m2)
        /\ idleQueue = {}

\* C7 as stated: every post-hydrate or idle instance whose props supply neither id
\* nor src gets its own element when its insertion path runs.
C7_MissingKeyDistinct ==
    \A m \in Mounts :
        (/\ Created(m) /\ Imperative(props[m]) /\ Ran(m)
         /\ "id" \notin DOMAIN props[m] /\ "src" \notin DOMAIN props[m])
            => Owns(m)

\* C8 as stated: whenever src is supplied, the rendered script description and the
\* inserted element carry it as their src, whether or not an inline body is supplied.
C8_SourceWins ==
    \A m \in Mounts :
        (Created(m) /\ Truthy(Get(props[m], "src"))) =>
            /\ (Live(m) /\ out[m].tag = "script")
                  => /\ "src" \in DOMAIN out[m].attrs
                     /\ out[m].attrs["src"] = props[m]["src"]
            /\ Owns(m) => /\ "src" \in DOMAIN elems[script[m]].attrs
                          /\ elems[script[m]].attrs["src"] = props[m]["src"]

\* The keys resolveAttributes passes through.
Passthrough(p) == (DOMAIN p) \ handledProps

\* The attributes of the element instance m rendered / inserted.
RenderedAttrs(m) == out[m].attrs
InsertedAttrs(m) == elems[script[m]].attrs

\* C9 as stated: every supplied key outside the control set is an attribute of the
\* rendered or inserted element with exactly the supplied value, under every strategy.
C9_Original ==
    \A m \in Mounts :
        Created(m) =>
            /\ (Live(m) /\ out[m].tag = "script")
                  => \A k \in Passthrough(props[m]) :
                        /\ k \in DOMAIN RenderedAttrs(m)
                        /\ RenderedAttrs(m)[k] = props[m][k]
            /\ Owns(m)
                  => \A k \in Passthrough(props[m]) :
                        /\ k \in DOMAIN InsertedAttrs(m)
                        /\ InsertedAttrs(m)[k] = props[m][k]

\* C9 as amended: as stated, except that the description rendered for
\* experimental-partytown carries type text/partytown in place of a supplied type;
\* and no control key other than src is an attribute of either element.
C9_PassthroughFidelity ==
    \A m \in Mounts :
        Created(m) =>
            /\ (Live(m) /\ out[m].tag = "script")
                  => /\ \A k \in Passthrough(props[m]) :
                          /\ k \in DOMAIN RenderedAttrs(m)
                          /\ RenderedAttrs(m)[k] =
                                IF k = "type" /\ StrategyOf(props[m]) = experimentalPartytown
                                THEN "text/partytown" ELSE props[m][k]
                     /\ (DOMAIN RenderedAttrs(m)) \cap (handledProps \ {"src"}) = {}
            /\ Owns(m)
                  => /\ \A k \in Passthrough(props[m]) :
                          /\ k \in DOMAIN InsertedAttrs(m)
                          /\ InsertedAttrs(m)[k] = props[m][k]
                     /\ (DOMAIN InsertedAttrs(m)) \cap (handledProps \ {"src"}) = {}

\* C9 witness: an inserted element carries the supplied id, type and data-strategy,
\* the last one in place of the strategy name injectScript writes itself.
C9_Witness ==
    \E m \in Mounts :
        /\ Owns(m)
        /\ {"id", "type", "data-strategy"} \subseteq Passthrough(props[m])
        /\ Passthrough(props[m]) \subseteq DOMAIN InsertedAttrs(m)
        /\ InsertedAttrs(m)["data-strategy"] = "custom"
        /\ InsertedAttrs(m)["data-strategy"] # StrategyOf(props[m])

\* C10 as stated: an experimental-partytown instance never runs the insertion path
\* or schedules a callback, and renders a script description of type text/partytown
\* that carries src whenever src is supplied.
C10_PartytownDeclarative ==
    \A m \in Mounts :
        (Created(m) /\ StrategyOf(props[m]) = experimentalPartytown) =>
            /\ script[m] = Unassigned
            /\ m \notin idleQueue
            /\ Live(m) =>
                  /\ out[m].tag = "script"
                  /\ out[m].attrs["type"] = "text/partytown"
                  /\ Truthy(Get(props[m], "src"))
                        => /\ "src" \in DOMAIN out[m].attrs
                           /\ out[m].attrs["src"] = props[m]["src"]

\* C11: a pre-hydrate mount effect that finds the already-loaded check true changes
\* neither document nor cache; what the post-hydrate, idle and experimental-partytown
\* mount effects and the idle callback do is fixed by the props, the cache and the
\* document alone, and no handler of the component changes the check's value.
C11_PreHydrateGate ==
    [][ \A m \in Mounts :
          /\ (MountStep(m) /\ StrategyOf(props[m]) = preHydrate /\ alreadyLoaded)
                => UNCHANGED <<body, elems, appendLog, scriptCache, script, idleQueue>>
          /\ ((MountStep(m) /\ StrategyOf(props[m]) = postHydrate) \/ IdleStep(m))
                => IF IdentityKey(props[m]) \in scriptCache
                   THEN /\ script'[m] = Null
                        /\ UNCHANGED <<body, elems, appendLog, scriptCache>>
                   ELSE /\ script'[m] = Len(elems) + 1
                        /\ elems' = Append(elems, NewElement(props[m]))
                        /\ body' = Append(body, Len(elems) + 1)
                        /\ scriptCache' = scriptCache \cup {IdentityKey(props[m])}
          /\ (MountStep(m) /\ StrategyOf(props[m]) = idle)
                => /\ idleQueue' = idleQueue \cup {m}
                   /\ UNCHANGED <<body, elems, appendLog, scriptCache, script>>
          /\ (MountStep(m) /\ StrategyOf(props[m]) = experimentalPartytown)
                => UNCHANGED <<body, elems, appendLog, scriptCache, script, idleQueue>>
          /\ (MountStep(m) \/ IdleStep(m) \/ UnmountStep(m))
                => alreadyLoaded' = alreadyLoaded ]_vars

\* C11 witness: a pre-hydrate instance is mounted while the check is true; its key
\* is not cached, it has not run the insertion path and the document is empty.
C11_Witness ==
    \E m \in Mounts :
        /\ phase[m] = "mounted" /\ StrategyOf(props[m]) = preHydrate
        /\ alreadyLoaded /\ script[m] = Unassigned
        /\ IdentityKey(props[m]) \notin scriptCache
        /\ body = <<>>

\* The props of the instance whose insertion created element h.
OwnerProps(h) == props[CHOOSE m \in Mounts : script[m] = h]

\* C12: when the error event of an inserted element fires, exactly the supplied
\* onError callback is invoked, and only if the cleanup has not detached it;
\* the step changes neither document, cache, nor any instance; afterwards the key
\* stays cached, no other element is appended under it, and the element leaves the
\* document only through the cleanup of the instance that owns it.
C12_LoadFailure ==
    [][ \A h \in 1..Len(elems) :
          /\ (<<h, "error">> \in dispatched' \ dispatched)
                => /\ called' \ called =
                        IF Truthy(Get(OwnerProps(h), "onError"))
                           /\ <<h, "error">> \notin detachLog
                        THEN {<<h, "error", OwnerProps(h)["onError"]>>}
                        ELSE {}
                   /\ UNCHANGED <<body, elems, scriptCache, appendLog, script,
                                  idleQueue, phase, out>>
          /\ (<<h, "error">> \in dispatched)
                => /\ appendLog[h] \in scriptCache'
                   /\ {g \in 1..Len(appendLog') : appendLog'[g] = appendLog[h]} = {h}
                   /\ (InBody(h) /\ ~(\E i \in 1..Len(body') : body'[i] = h))
                         => \E m \in Mounts : UnmountStep(m) /\ script[m] = h ]_vars

\* C12 witness: an element's error event has fired and its onError callback was
\* invoked; the element is still in the document, its key is cached, and a second
\* instance with the same key has since run the insertion path and got null.
C12_Witness ==
    \E h \in 1..Len(elems) :
        /\ <<h, "error">> \in dispatched
        /\ \E c \in called : c[1] = h /\ c[2] = "error"
        /\ InBody(h) /\ appendLog[h] \in scriptCache
        /\ Len(elems) = 1
        /\ \E m \in Mounts : script[m] = Null /\ IdentityKey(props[m]) = appendLog[h]

\* The inline body the descriptor resolver is to compute: the raw-HTML value when
\* present and non-empty, else the children value when present, else "".
ExpectedInline(p) ==
    LET html == IF "dangerouslySetInnerHTML" \in DOMAIN p
                THEN p["dangerouslySetInnerHTML"]["__html"] ELSE Undefined
    IN  IF html \notin {Undefined, ""} THEN html
        ELSE IF "children" \in DOMAIN p THEN p["children"]
        ELSE ""

\* C13: for every combination of dangerouslySetInnerHTML.__html and children, the
\* body of the rendered script description and the text content of the inserted
\* element are the raw-HTML value when it is present and non-empty, else the
\* children value when present, else the empty string.
C13_InlineBodyResolution ==
    \A m \in Mounts :
        Created(m) =>
            /\ (Live(m) /\ out[m].tag = "script")
                  => out[m].children = ExpectedInline(props[m])
            /\ Owns(m) => elems[script[m]].textContent = ExpectedInline(props[m])

\* C13 witness: an element was inserted for props that supply both a non-empty
\* raw-HTML value and non-empty children; its text content is the raw-HTML value.
C13_Witness ==
    \E m \in Mounts :
        /\ Owns(m)
        /\ "dangerouslySetInnerHTML" \in DOMAIN props[m]
        /\ props[m]["dangerouslySetInnerHTML"]["__html"] = "h1"
        /\ Get(props[m], "children") = "c1"
        /\ elems[script[m]].textContent = "h1"

\* Position of call x in the call sequence L.
Idx(L, x) == CHOOSE i \in 1..Len(L) : L[i] = x
Has(L, x) == \E i \in 1..Len(L) : L[i] = x

\* C14: for every inserted element the cache lookup precedes createElement,
\* appendChild precedes the cache write, and in the cleanup every
\* removeEventListener call precedes remove.
C14_OrderWithinMount ==
    \A h \in 1..Len(ops) :
        LET L == ops[h]
        IN  /\ Has(L, "scriptCache.has") /\ Has(L, "createElement")
            /\ Has(L, "appendChild") /\ Has(L, "scriptCache.add")
            /\ Idx(L, "scriptCache.has") < Idx(L, "createElement")
            /\ Idx(L, "createElement") < Idx(L, "appendChild")
            /\ Idx(L, "appendChild") < Idx(L, "scriptCache.add")
            /\ Has(L, "remove") =>
                  /\ Idx(L, "scriptCache.add") < Idx(L, "remove")
                  /\ \A i \in 1..Len(L) :
                        L[i] \in {"removeEventListener:load", "removeEventListener:error"}
                            => i < Idx(L, "remove")
                  /\ Idx(L, "remove") = Len(L)

\* C14 witness: an element inserted with both listeners has been torn down: its
\* call sequence holds both detachments and the removal.
C14_Witness ==
    \E h \in 1..Len(ops) :
        /\ Has(ops[h], "removeEventListener:load")
        /\ Has(ops[h], "removeEventListener:error")
        /\ Has(ops[h], "remove")
        /\ ~InBody(h)

\* C15: an instance's `script` variable, once set, never changes, so an instance owns
\* at most one element; no element is held by two instances; an element leaves the
\* document only in the cleanup of the instance that holds it; the cleanup of an
\* instance that holds no element changes neither document, cache nor any element.
C15_ExclusiveOwnership ==
    [][ /\ \A m \in Mounts :
              /\ script[m] # Unassigned => script'[m] = script[m]
              /\ \A m2 \in Mounts :
                    (m2 # m /\ script'[m] > Null) => script'[m2] # script'[m]
              /\ (UnmountStep(m) /\ ~Owns(m))
                    => UNCHANGED <<body, scriptCache, elems, detachLog>>
        /\ \A h \in 1..Len(elems) :
              (InBody(h) /\ ~(\E i \in 1..Len(body') : body'[i] = h))
                  => \E m \in Mounts : UnmountStep(m) /\ script[m] = h
        /\ \A h \in 1..Len(elems') : \E m \in Mounts : script'[m] = h ]_vars

\* C15 witness: an instance whose insertion was suppressed has unmounted while the
\* instance that owns the element for the same key is mounted with its element in
\* the document.
C15_Witness ==
    \E m1, m2 \in Mounts :
        /\ m1 # m2
        /\ phase[m1] = "mounted" /\ Owns(m1) /\ InBody(script[m1])
        /\ phase[m2] = "unmounted" /\ script[m2] = Null
        /\ IdentityKey(props[m1]) = IdentityKey(props[m2])

\* The key the claims derive from a descriptor: the id when non-empty, else the src.
ExpectedKey(p) ==
    IF "id" \in DOMAIN p /\ p["id"] # "" THEN p["id"]
    ELSE IF "src" \in DOMAIN p THEN p["src"]
    ELSE Undefined

\* C16: injectScript looks up and writes the cache under the id when it is
\* non-empty and under the src otherwise; its insertion is suppressed iff a
\* descriptor with an equal derived key was inserted before.
C16_IdentityKeyDerivation ==
    [][ \A m \in Mounts :
          InjectStep(m) =>
            /\ script'[m] = Null <=> ExpectedKey(props[m]) \in scriptCache
            /\ script'[m] = Null <=>
                  \E h \in 1..Len(elems) :
                      ExpectedKey(OwnerProps(h)) = ExpectedKey(props[m])
            /\ script'[m] > Null =>
                  /\ scriptCache' = scriptCache \cup {ExpectedKey(props[m])}
                  /\ appendLog'[script'[m]] = ExpectedKey(props[m]) ]_vars

\* C16 witness: a descriptor with an explicit id and a descriptor with only a src,
\* both naming the same URL, each own an element.
C16_Witness ==
    \E m1, m2 \in Mounts :
        /\ Truthy(Get(props[m1], "id")) /\ "id" \notin DOMAIN props[m2]
        /\ Truthy(Get(props[m1], "src"))
        /\ Get(props[m1], "src") = Get(props[m2], "src")
        /\ Owns(m1) /\ Owns(m2) /\ script[m1] # script[m2]
        /\ InBody(script[m1]) /\ InBody(script[m2])

\* C17: the strategy switch runs once per instance, in its mount step, where the
\* pre-hydrate case takes the check's value of that moment; afterwards only the idle
\* callback assigns the instance's `script`, nothing schedules the instance again,
\* and a re-render changes neither document, cache, instances' elements, the idle
\* queue nor any lifecycle phase.
C17_MountTimeEvaluation ==
    [][ \A m \in Mounts :
          /\ renders' # renders
                => UNCHANGED <<phase, script, idleQueue, scriptCache, elems,
                               appendLog, body, detachLog>>
          /\ phase[m] = "mounted" => phase'[m] \in {"mounted", "unmounted"}
          /\ phase[m] = "unmounted" => phase'[m] = "unmounted"
          /\ (MountStep(m) /\ StrategyOf(props[m]) = preHydrate)
                => (script'[m] = Unassigned <=> alreadyLoaded)
          /\ (phase[m] \in {"mounted", "unmounted"} /\ ~IdleStep(m))
                => script'[m] = script[m]
          /\ (phase[m] \in {"mounted", "unmounted"} /\ m \notin idleQueue)
                => m \notin idleQueue' ]_vars

\* C17 witness: a pre-hydrate instance was mounted while the check was true; the
\* check is now false and a re-render has happened, and the instance still has not
\* run the insertion path.
C17_Witness ==
    \E m \in Mounts :
        /\ phase[m] = "mounted" /\ StrategyOf(props[m]) = preHydrate
        /\ script[m] = Unassigned /\ ~alreadyLoaded
        /\ renders > 0
        /\ IdentityKey(props[m]) \notin scriptCache

\* C18: the cache is exactly the set of keys under which an element has been
\* appended, and it never loses a key; scheduling an idle insertion leaves it
\* unchanged, and the key enters when the callback runs and appends.
C18_CacheAppendCorrespondence ==
    [][ /\ scriptCache \subseteq scriptCache'
        /\ scriptCache = {appendLog[h] : h \in 1..Len(appendLog)}
        /\ scriptCache' = {appendLog'[h] : h \in 1..Len(appendLog')}
        /\ Len(appendLog') = Len(elems')
        /\ \A m \in Mounts :
              /\ (MountStep(m) /\ StrategyOf(props[m]) = idle)
                    => scriptCache' = scriptCache /\ appendLog' = appendLog
              /\ (IdleStep(m) /\ IdentityKey(props[m]) \notin scriptCache)
                    => /\ IdentityKey(props[m]) \in scriptCache'
                       /\ Len(appendLog') = Len(appendLog) + 1 ]_vars

\* C18 witness: an idle instance is mounted with its callback pending and its key is
\* not in the cache, while another key is.
C18_Witness ==
    \E m \in Mounts :
        /\ phase[m] = "mounted" /\ m \in idleQueue
        /\ IdentityKey(props[m]) \notin scriptCache
        /\ scriptCache # {}

\* C19: when the instance that owns the element for K is cleaned up while another
\* instance with K is mounted and was suppressed, the element leaves the document;
\* from then on the document holds no element for K and the suppressed instance
\* never gets one.
C19_SharedKeyRemoval ==
    [][ \A m1, m2 \in Mounts :
          (m1 # m2 /\ phase[m2] # "init"
             /\ IdentityKey(props[m1]) = IdentityKey(props[m2])
             /\ script[m2] = Null)
            => /\ (UnmountStep(m1) /\ Owns(m1) /\ phase[m2] = "mounted")
                     => /\ ~(\E i \in 1..Len(body') : body'[i] = script[m1])
                        /\ script'[m2] = Null
               /\ (phase[m1] = "unmounted" /\ Owns(m1) /\ ~InBody(script[m1]))
                     => /\ \A i \in 1..Len(body') :
                              appendLog'[body'[i]] # IdentityKey(props[m1])
                        /\ script'[m2] = Null ]_vars

\* C19 witness: an idle consumer of K whose callback ran and was suppressed is still
\* mounted; the post-hydrate instance that owned K's element has unmounted, and the
\* document holds no element for K.
C19_Witness ==
    \E m1, m2 \in Mounts :
        /\ m1 # m2
        /\ IdentityKey(props[m1]) = IdentityKey(props[m2])
        /\ StrategyOf(props[m1]) = postHydrate /\ StrategyOf(props[m2]) = idle
        /\ phase[m1] = "unmounted" /\ Owns(m1)
        /\ phase[m2] = "mounted" /\ script[m2] = Null /\ m2 \notin idleQueue
        /\ body = <<>>

\* C20: under a fair idle scheduler every scheduled callback eventually runs, with
\* the instance's key in the cache from then on; the cleanup leaves the idle queue
\* as it is.
C20_IdleLiveness ==
    /\ \A m \in Mounts :
          (m \in idleQueue) ~>
              (m \notin idleQueue /\ Ran(m) /\ IdentityKey(props[m]) \in scriptCache)
    /\ [][ \A m \in Mounts :
             /\ UnmountStep(m) => idleQueue' = idleQueue
             /\ (StrategyOf(props[m]) = idle /\ Ran(m))
                   => IdentityKey(props[m]) \in scriptCache' ]_vars

\* C20 witness: an idle instance was unmounted and its callback has run; the key was
\* already cached, so the callback returned null.
C20_Witness ==
    \E m \in Mounts :
        /\ StrategyOf(props[m]) = idle /\ phase[m] = "unmounted"
        /\ m \notin idleQueue /\ script[m] = Null
        /\ IdentityKey(props[m]) \in scriptCache

====
